---- MODULE Spec2Model ----
(***************************************************************************)
(* Pomodoro CLI timer (src/pomodoro.py): one process invocation of main()  *)
(* at a time, over a backing file that outlives the processes.             *)
(*                                                                         *)
(* Spec and SpecRuns follow one and several invocations; SpecLive adds the *)
(* scheduling of the countdown; SpecViews gives the views every small log; *)
(* SpecOverlap adds a second `start` process on the same backing file.     *)
(*                                                                         *)
(* A process is followed statement by statement (pc), so that an uncaught  *)
(* exception or an external kill can end it between any two statements.    *)
(* Time is the wall clock in whole seconds since the epoch of the model;   *)
(* it advances while the process sleeps in countdown() and, possibly, by   *)
(* one second between the two datetime.now() reads of start_session.       *)
(***************************************************************************)
EXTENDS Integers, Sequences, FiniteSets, TLC

VARIABLES
    file,           \* the backing file pomodoro_data.json (outlives a process)
    clock,          \* wall clock, seconds
    run,            \* number of process invocations launched so far
    invocations,    \* the number of invocations the behaviour is followed for
    file0,          \* history: the backing file as it was when the process was launched
    pc,             \* position of the running process in main()/start_session()
    argv,           \* sys.argv of the process (argv[1] is the script name)
    TTS_AVAILABLE,  \* module global set by the import of pyttsx3
    sessions,       \* self.sessions
    sound_mode,     \* self.sound_mode ("None" until chosen)
    tts_engine,     \* self.tts_engine ("None" or "engine")
    task_name,      \* argument of start_session
    end_time,       \* local of countdown()
    remaining,      \* local of countdown(): the value shown on the last tick
    completed,      \* local of start_session: the value returned by the work countdown
    session,        \* the record start_session is building / has built
    exc,            \* the exception that ended the process ("" when none)
    played,         \* history: the notifier events delivered without error, in order
    entered,        \* history: the instant the work countdown was entered (-1: not yet)
    saved,          \* history: the sessions written by save_sessions, over all processes
    opened,         \* history: how many times the backing file was opened for writing
    file1,          \* history: the backing file as the first process found it
    choice,         \* local of choose_sound_mode: the last answer, stripped ("None": none yet)
    answer,         \* the text typed at the break prompt ("None": none yet)
    out,            \* what show_today / show_history / show_stats displayed
    events,         \* history: the lifecycle events of the invocation, in order
    began,          \* history: the instant the latest countdown was entered (-1: none yet)
    other_pc,       \* a second, overlapping `start` process: its position
    other_sessions, \* self.sessions of the second process
    other_start,    \* the instant the second process was launched
    other_loaded,   \* history: how far the first process was when the second loaded
    other_saved     \* history: how far the first process was when the second saved

vars == <<file, clock, run, invocations, file0, pc, argv, TTS_AVAILABLE, sessions, sound_mode,
          tts_engine, task_name, end_time, remaining, completed, session, exc, played,
          entered, saved, opened, file1, choice, answer, out, events, began,
          other_pc, other_sessions, other_start, other_loaded, other_saved>>

\* the second process
other == <<other_pc, other_sessions, other_start, other_loaded, other_saved>>

\* the history variables that outlive a process
history == <<saved, opened, file1, invocations>>

-----------------------------------------------------------------------------
(* Bounds of the model *)

\* process invocations followed in one behaviour
MaxRuns == 1

\* the views: records in a log, distinct dates, and the limits given to show_history
MaxLog == 4
MaxDays == 2
MaxLimit == 5

-----------------------------------------------------------------------------
(* Program constants *)

WorkMinutes == 25
BreakMinutes == 5
SecondsPerMinute == 60
SecondsPerHour == 3600
SecondsPerDay == 86400

work_duration == WorkMinutes * SecondsPerMinute
break_duration == BreakMinutes * SecondsPerMinute

\* The first process is launched so that its work countdown ends one second
\* before midnight; each later one is launched a day after the one before it.
\* Before the first launch no process exists (pc = "off").
LaunchTime(n) == n * SecondsPerDay - work_duration - 1

-----------------------------------------------------------------------------
(* Text helpers: str.lower(), str.strip(), " ".join() on the inputs used *)

Lower(s) ==
    CASE s = "START" -> "start"
      [] s = "Y" -> "y"
      [] OTHER -> s

Strip(s) ==
    CASE s = " 3 " -> "3"
      [] OTHER -> s

RECURSIVE Join(_)
Join(words) ==
    IF Len(words) = 0 THEN ""
    ELSE IF Len(words) = 1 THEN words[1]
    ELSE words[1] \o " " \o Join(Tail(words))

\* e in seq
Has(seq, e) == \E i \in DOMAIN seq : seq[i] = e

\* seq[from:] of Python, for a 1-based sequence
Slice(seq, from) == SubSeq(seq, from, Len(seq))

-----------------------------------------------------------------------------
(* strftime: the calendar date and the wall-clock time of an instant *)

\* '%Y-%m-%d': the day the instant falls on (days since the epoch)
StrfDate(t) == t \div SecondsPerDay

\* '%H:%M:%S'
StrfTime(t) ==
    LET s == t % SecondsPerDay
    IN  << s \div SecondsPerHour,
           (s % SecondsPerHour) \div SecondsPerMinute,
           s % SecondsPerMinute >>

-----------------------------------------------------------------------------
(* JSON: json.dump / json.load of the session list *)

RECURSIVE Digits(_)
\* decimal digits of a natural number, most significant first
Digits(n) == IF n < 10 THEN <<n>> ELSE Append(Digits(n \div 10), n % 10)

RECURSIVE Number(_)
\* the number a digit string denotes
Number(ds) ==
    IF Len(ds) = 0 THEN 0
    ELSE Number(SubSeq(ds, 1, Len(ds) - 1)) * 10 + ds[Len(ds)]

\* one session dictionary as JSON text: numbers as digits, booleans as literals
EncodeSession(s) ==
    [ task |-> s.task, date |-> s.date, time |-> s.time,
      duration |-> Digits(s.duration),
      completed |-> IF s.completed THEN "true" ELSE "false" ]

\* a decoder that reads the digits of a number in the wrong order
DecodeSessionReversed(e) ==
    [ task |-> e.task, date |-> e.date, time |-> e.time,
      duration |-> Number([ i \in 1..Len(e.duration) |-> e.duration[Len(e.duration) + 1 - i] ]),
      completed |-> (e.completed = "true") ]

DecodeSession(e) ==
    [ task |-> e.task, date |-> e.date, time |-> e.time,
      duration |-> Number(e.duration),
      completed |-> (e.completed = "true") ]

\* json.dump(self.sessions, f): the text of the whole value
JsonDump(value) ==
    IF value.kind = "list"
    THEN [ kind |-> "list", items |-> [ i \in 1..Len(value.items) |-> EncodeSession(value.items[i]) ] ]
    ELSE [ kind |-> "object", items |-> <<>> ]

\* json.load(f) of a parsable text
JsonLoad(text) ==
    IF text.kind = "list"
    THEN [ kind |-> "list", items |-> [ i \in 1..Len(text.items) |-> DecodeSession(text.items[i]) ] ]
    ELSE [ kind |-> "object", items |-> <<>> ]

EmptyList == [ kind |-> "list", items |-> <<>> ]

\* The states of the backing file: absent; present and not parsable (empty,
\* cut short, not JSON); a JSON list of session objects; another JSON value.
MissingFile == [ kind |-> "missing", items |-> <<>> ]
GarbageFile == [ kind |-> "garbage", items |-> <<>> ]
ObjectFile == [ kind |-> "object", items |-> <<>> ]

Parsable(f) == f.kind \in {"list", "object"}

-----------------------------------------------------------------------------
(* SessionStore: load_sessions *)

\* load_sessions without its try/except: a parse error propagates
load_sessions_unguarded(f) ==
    IF f.kind # "missing"
    THEN IF Parsable(f)
         THEN [ raised |-> FALSE, value |-> JsonLoad(f) ]
         ELSE [ raised |-> TRUE, value |-> EmptyList ]
    ELSE [ raised |-> FALSE, value |-> EmptyList ]

\* load_sessions(): [raised, value]. A missing file gives []; whatever goes
\* wrong while opening or parsing an existing file is caught and gives [].
load_sessions(f) ==
    IF f.kind # "missing"
    THEN IF Parsable(f)
         THEN [ raised |-> FALSE, value |-> JsonLoad(f) ]
         ELSE [ raised |-> FALSE, value |-> EmptyList ]
    ELSE [ raised |-> FALSE, value |-> EmptyList ]

\* What a fresh process would read from the backing file: the persisted log.
Persisted(f) == load_sessions(f).value

-----------------------------------------------------------------------------
(* Notifier: play_sound, _play_beep, _play_tts *)

\* _play_beep: winsound.Beep raises RuntimeError when the tone cannot be
\* played; the terminal bell of the other platforms does not raise.
\* [raised, engine]
_play_beep(engine, fails) == [ raised |-> fails, engine |-> engine ]

\* _play_tts: falls back to beeps without the backend; otherwise creates the
\* engine on first use and speaks; pyttsx3.init/say/runAndWait may raise.
_play_tts(avail, engine, fails) ==
    IF ~avail THEN _play_beep(engine, fails)
    ELSE IF fails THEN [ raised |-> TRUE, engine |-> engine ]
    ELSE [ raised |-> FALSE, engine |-> "engine" ]

\* play_sound(sound_type) under the chosen mode; `fails`: the backend raises
play_sound(mode, avail, engine, fails) ==
    IF mode = "beeps" THEN _play_beep(engine, fails)
    ELSE IF mode = "tts" THEN _play_tts(avail, engine, fails)
    ELSE [ raised |-> FALSE, engine |-> engine ]

-----------------------------------------------------------------------------
(* countdown and record construction *)

\* an end time that leaves the duration out
EndTimeImmediate(now, duration) == now

\* line 155: end_time = time.time() + duration
EndTime(now, duration) == now + duration

\* a loop that stops one second early
RunningOffByOne(now, endt) == now + 1 < endt

\* line 157: the loop condition, time.time() < end_time
Running(now, endt) == now < endt

\* line 158: remaining = int(end_time - time.time())
Remaining(now, endt) == endt - now

\* lines 191-197: the session dictionary, from the two formatted clock readings
NewSession(task, date_text, time_text) ==
    [ task |-> task,
      date |-> date_text,
      time |-> time_text,
      duration |-> work_duration \div SecondsPerMinute,
      completed |-> TRUE ]

\* an append that leaves the list as it was
AppendSessionDropped(log, s) == log

\* line 198: self.sessions.append(session)
AppendSession(log, s) == [ log EXCEPT !.items = Append(@, s) ]

\* a comparison without the .lower()
TakesBreakCaseSensitive(typed) == typed = "y"

\* line 205: take_break == 'y' after .lower()
TakesBreak(typed) == Lower(typed) = "y"

NoSession == [ task |-> "", date |-> 0, time |-> <<0, 0, 0>>, duration |-> 0, completed |-> FALSE ]

-----------------------------------------------------------------------------
(* Views: show_today, show_history, show_stats *)

\* nothing displayed by a view
NoOutput == [ view |-> "none" ]

\* the default of show_history's limit parameter
HistoryLimit == 10

\* the number of active days listed under "Recent Activity"
RecentDays == 7

RECURSIVE SumDurations(_)
\* sum(s['duration'] for s in items)
SumDurations(items) ==
    IF Len(items) = 0 THEN 0 ELSE items[1].duration + SumDurations(Tail(items))

\* seq[::-1]
Reverse(seq) == [ i \in 1..Len(seq) |-> seq[Len(seq) + 1 - i] ]

\* a slice that takes the first n items instead of the last
FirstItems(seq, n) ==
    IF n >= Len(seq) THEN seq ELSE SubSeq(seq, 1, n)

\* seq[-n:] for n >= 0 (seq[-0:] is the whole list)
LastItems(seq, n) ==
    IF n = 0 \/ n >= Len(seq) THEN seq ELSE SubSeq(seq, Len(seq) - n + 1, Len(seq))

\* show_today lines 212-231
show_today(log, today) ==
    LET today_sessions == SelectSeq(log.items, LAMBDA s : s.date = today)
    IN  IF Len(today_sessions) = 0
        THEN [ view |-> "today", empty |-> TRUE ]
        ELSE [ view |-> "today", empty |-> FALSE,
               rows |-> today_sessions,
               total |-> Len(today_sessions),
               minutes |-> SumDurations(today_sessions) ]

\* show_history lines 239-251
show_history(log, limit) ==
    IF Len(log.items) = 0
    THEN [ view |-> "history", empty |-> TRUE ]
    ELSE [ view |-> "history", empty |-> FALSE,
           limit |-> limit,
           rows |-> Reverse(LastItems(log.items, limit)) ]

\* line 275: days[date] = days.get(date, 0) + 1, on a dict kept in insertion order
CountDay(days, date) ==
    IF \E i \in DOMAIN days : days[i].date = date
    THEN [ i \in DOMAIN days |->
             IF days[i].date = date THEN [ days[i] EXCEPT !.count = @ + 1 ] ELSE days[i] ]
    ELSE Append(days, [ date |-> date, count |-> 1 ])

RECURSIVE DaysOf(_)
\* lines 272-275: the sessions counted by day
DaysOf(items) ==
    IF Len(items) = 0 THEN <<>>
    ELSE CountDay(DaysOf(SubSeq(items, 1, Len(items) - 1)), items[Len(items)].date)

RECURSIVE MaxByCountLast(_)
\* a maximum that lets a later day of equal count win
MaxByCountLast(days) ==
    IF Len(days) = 1 THEN days[1]
    ELSE LET best == MaxByCountLast(SubSeq(days, 1, Len(days) - 1))
         IN  IF days[Len(days)].count >= best.count THEN days[Len(days)] ELSE best

RECURSIVE MaxByCount(_)
\* line 283: max(days.items(), key=lambda x: x[1]) keeps the first item it met
\* until one with a strictly greater count comes
MaxByCount(days) ==
    IF Len(days) = 1 THEN days[1]
    ELSE LET best == MaxByCount(SubSeq(days, 1, Len(days) - 1))
         IN  IF days[Len(days)].count > best.count THEN days[Len(days)] ELSE best

RECURSIVE Sorted(_)
\* sorted(days.keys())
Sorted(dates) ==
    IF dates = {} THEN <<>>
    ELSE LET least == CHOOSE d \in dates : \A e \in dates : d <= e
         IN  <<least>> \o Sorted(dates \ {least})

\* show_stats lines 255-293
show_stats(log) ==
    IF Len(log.items) = 0
    THEN [ view |-> "stats", empty |-> TRUE ]
    ELSE LET days == DaysOf(log.items)
         IN  [ view |-> "stats", empty |-> FALSE,
               total |-> Len(log.items),
               minutes |-> SumDurations(log.items),
               days |-> days,
               active |-> Len(days),
               average |-> << Len(log.items), Len(days) >>,
               best |-> MaxByCount(days),
               recent |-> LastItems(Sorted({ days[i].date : i \in DOMAIN days }), RecentDays) ]

\* main lines 344-351: the view a command displays
Show(command, log, today) ==
    CASE command = "today" -> show_today(log, today)
      [] command = "history" -> show_history(log, HistoryLimit)
      [] OTHER -> show_stats(log)

-----------------------------------------------------------------------------
(* Inputs *)

Script == "pomodoro.py"

\* the argument vectors given to main (argv[1] is sys.argv[0])
Argvs ==
    { <<Script>>,
      <<Script, "start">>,
      <<Script, "start", "">>,
      <<Script, "START", "a", "b">>,
      <<Script, "today">>,
      <<Script, "history">>,
      <<Script, "stats">>,
      <<Script, "help">>,
      <<Script, "bogus">> }

\* answers typed at the sound prompt and at the break prompt
SoundAnswers == { "1", "2", " 3 ", "x" }
BreakAnswers == { "y", "Y", "n", "" }

\* a record an earlier run of the program wrote, and a hand-edited one
OldSession ==
    [ task |-> "old", date |-> 0, time |-> <<9, 0, 0>>, duration |-> 25, completed |-> TRUE ]
EditedSession ==
    [ task |-> "edited", date |-> 0, time |-> <<9, 30, 0>>, duration |-> 25, completed |-> FALSE ]

\* a file written by the program, then edited
WellFormedFile == JsonDump([ kind |-> "list", items |-> <<OldSession, EditedSession>> ])

\* the backing file found by the first process
InitFiles == { MissingFile, GarbageFile, ObjectFile, WellFormedFile }

Terminal == { "exit", "raised", "killed" }

\* the commands that display a view
ViewArgvs == { <<Script, "today">>, <<Script, "history">>, <<Script, "stats">> }

\* the logs given to the views: every sequence of up to MaxLog records over a
\* few dates and two durations, and one log longer than the default limit
ViewRecords ==
    { [ task |-> "t", date |-> d, time |-> <<9, 0, 0>>, duration |-> m, completed |-> TRUE ] :
        d \in 0..(MaxDays - 1), m \in { WorkMinutes, 2 * WorkMinutes } }

ViewLogs == UNION { [ 1..n -> ViewRecords ] : n \in 0..MaxLog }

LongLog ==
    [ i \in 1..(HistoryLimit + 5) |->
        [ task |-> "t", date |-> i % MaxDays, time |-> <<i, 0, 0>>,
          duration |-> WorkMinutes, completed |-> TRUE ] ]

ViewFiles == { JsonDump([ kind |-> "list", items |-> l ]) : l \in ViewLogs \cup { LongLog } }

-----------------------------------------------------------------------------
(* The process *)

\* a freshly launched process: nothing constructed yet
Fresh(a, tts) ==
    /\ pc' = "init"
    /\ argv' = a
    /\ TTS_AVAILABLE' = tts
    /\ sessions' = EmptyList
    /\ sound_mode' = "None"
    /\ tts_engine' = "None"
    /\ task_name' = ""
    /\ end_time' = 0
    /\ remaining' = 0
    /\ completed' = FALSE
    /\ session' = NoSession
    /\ exc' = ""
    /\ played' = <<>>
    /\ entered' = -1
    /\ choice' = "None"
    /\ answer' = "None"
    /\ out' = NoOutput
    /\ events' = <<>>
    /\ began' = -1

\* before the first invocation: a backing file, an installation, no process
InitWith(files, installations, runs) ==
    /\ file \in files
    /\ file0 = file
    /\ file1 = file
    /\ clock = 0
    /\ run = 0
    /\ invocations = runs
    /\ pc = "off"
    /\ argv = <<Script>>
    /\ TTS_AVAILABLE \in installations
    /\ sessions = EmptyList
    /\ sound_mode = "None"
    /\ tts_engine = "None"
    /\ task_name = ""
    /\ end_time = 0
    /\ remaining = 0
    /\ completed = FALSE
    /\ session = NoSession
    /\ exc = ""
    /\ played = <<>>
    /\ entered = -1
    /\ saved = <<>>
    /\ opened = 0
    /\ choice = "None"
    /\ answer = "None"
    /\ out = NoOutput
    /\ events = <<>>
    /\ began = -1
    /\ other_pc = "off"
    /\ other_sessions = EmptyList
    /\ other_start = 0
    /\ other_loaded = "None"
    /\ other_saved = "None"

Init == InitWith(InitFiles, BOOLEAN, MaxRuns)

\* a longer series of invocations, on an installation with the voice backend,
\* from a missing or a well-formed backing file
InitRuns == InitWith({ MissingFile, WellFormedFile }, {TRUE}, MaxRuns + 1)

\* the process ends with an uncaught exception
Raise(e) == pc' = "raised" /\ exc' = e

\* main line 327, __init__ lines 32-38: PomodoroTimer()
Construct ==
    /\ pc = "init"
    /\ LET r == load_sessions(file)
       IN  IF r.raised
           THEN Raise("LoadError") /\ UNCHANGED sessions
           ELSE pc' = "main" /\ sessions' = r.value /\ UNCHANGED exc
    /\ UNCHANGED <<file, clock, run, file0, argv, TTS_AVAILABLE, sound_mode, tts_engine,
                   task_name, end_time, remaining, completed, session, played>>
    /\ UNCHANGED <<entered, history>>
    /\ UNCHANGED <<choice, answer, out, events, began, other>>

\* show_today / show_history / show_stats read every session of the list;
\* a loaded value that is not a list of session objects makes them raise
ShowRaises(log) == log.kind # "list"

\* a guard that lets `start` go on without a task argument
MissingTaskIgnored(a) == FALSE

\* main line 336: `start` was given no task argument
MissingTask(a) == Len(a) < 3

\* main lines 329-358: the command dispatch, up to the entry of start_session
\* (lines 173-175) or through the whole of a read-only command
Main ==
    /\ pc = "main"
    /\ IF Len(argv) < 2
       THEN pc' = "exit" /\ UNCHANGED <<task_name, exc, out>>
       ELSE LET command == Lower(argv[2])
            IN  IF command = "start"
                THEN IF MissingTask(argv)
                     THEN pc' = "exit" /\ UNCHANGED <<task_name, exc, out>>
                     ELSE /\ task_name' = Join(Slice(argv, 3))
                          /\ pc' = IF sound_mode = "None" THEN "choose" ELSE "play_start"
                          /\ UNCHANGED <<exc, out>>
                ELSE IF command \in {"today", "history", "stats"}
                THEN /\ IF ShowRaises(sessions)
                        THEN Raise("TypeError") /\ UNCHANGED out
                        ELSE /\ pc' = "exit"
                             /\ out' = Show(command, sessions, StrfDate(clock))
                             /\ UNCHANGED exc
                     /\ UNCHANGED task_name
                ELSE pc' = "exit" /\ UNCHANGED <<task_name, exc, out>>
    /\ UNCHANGED <<file, clock, run, file0, argv, TTS_AVAILABLE, sessions, sound_mode,
                   tts_engine, end_time, remaining, completed, session, played>>
    /\ UNCHANGED <<entered, history>>
    /\ UNCHANGED <<choice, answer, events, began, other>>

\* a choice of voice that does not look at TTS_AVAILABLE
ChosenModeUnchecked(text, avail) ==
    IF text = "1" THEN "beeps"
    ELSE IF text = "2" THEN "tts"
    ELSE IF text = "3" THEN "none"
    ELSE "None"

\* choose_sound_mode lines 128-147: the mode an answer selects ("None": ask again)
ChosenMode(text, avail) ==
    IF text = "1" THEN "beeps"
    ELSE IF text = "2" THEN (IF avail THEN "tts" ELSE "None")
    ELSE IF text = "3" THEN "none"
    ELSE "None"

\* one round of the loop of choose_sound_mode
ChooseSoundMode ==
    /\ pc = "choose"
    /\ \E typed \in SoundAnswers :
         LET mode == ChosenMode(Strip(typed), TTS_AVAILABLE)
         IN  /\ choice' = Strip(typed)
             /\ sound_mode' = mode
             /\ pc' = IF mode = "None" THEN "choose" ELSE "play_start"
    /\ UNCHANGED <<file, clock, run, file0, argv, TTS_AVAILABLE, sessions, tts_engine,
                   task_name, end_time, remaining, completed, session, exc, played>>
    /\ UNCHANGED <<entered, history>>
    /\ UNCHANGED <<answer, out, events, began, other>>

\* notifications with `start` and `complete` exchanged
NotifyAtExchanged ==
    [ play_start |-> "complete", play_complete |-> "start", play_break_end |-> "break_end" ]

\* the statement at which each notification is made, and the one after it
NotifyAt == [ play_start |-> "start", play_complete |-> "complete", play_break_end |-> "break_end" ]
AfterNotify == [ play_start |-> "work_enter", play_complete |-> "build", play_break_end |-> "exit" ]

\* lines 181, 188, 207: self.play_sound(event)
PlaySound ==
    /\ pc \in DOMAIN NotifyAt
    /\ \E fails \in BOOLEAN :
         LET r == play_sound(sound_mode, TTS_AVAILABLE, tts_engine, fails)
         IN  IF r.raised
             THEN Raise("RuntimeError") /\ UNCHANGED <<tts_engine, played>>
             ELSE /\ pc' = AfterNotify[pc]
                  /\ tts_engine' = r.engine
                  /\ played' = Append(played, NotifyAt[pc])
                  /\ UNCHANGED exc
    /\ UNCHANGED <<file, clock, run, file0, argv, TTS_AVAILABLE, sessions, sound_mode,
                   task_name, end_time, remaining, completed, session>>
    /\ UNCHANGED <<entered, history>>
    /\ events' = Append(events, NotifyAt[pc])
    /\ UNCHANGED <<choice, answer, out, began, other>>

\* the countdown a statement enters, its duration and its loop
CountdownOf == [ work_enter |-> "work_loop", break_enter |-> "break_loop" ]
DurationOf == [ work_enter |-> work_duration, break_enter |-> break_duration ]

\* the lifecycle events of entering a countdown and of its return
EnterEvent == [ work_enter |-> "work", break_enter |-> "break" ]
ReturnEvent == [ work_loop |-> "work_done", break_loop |-> "break_done" ]

\* line 169: countdown returns True
CountdownResult == TRUE

\* countdown lines 152-155, called at line 184 (work) or 206 (break)
CountdownEnter ==
    /\ pc \in DOMAIN CountdownOf
    /\ end_time' = EndTime(clock, DurationOf[pc])
    /\ pc' = CountdownOf[pc]
    /\ UNCHANGED <<file, clock, run, file0, argv, TTS_AVAILABLE, sessions, sound_mode,
                   tts_engine, task_name, remaining, completed, session, exc, played>>
    /\ entered' = IF pc = "work_enter" THEN clock ELSE entered
    /\ UNCHANGED history
    /\ began' = clock
    /\ events' = Append(events, EnterEvent[pc])
    /\ UNCHANGED <<choice, answer, out, other>>

\* countdown lines 157-166: one round of the loop, through time.sleep(1)
CountdownTick ==
    /\ pc \in {"work_loop", "break_loop"}
    /\ Running(clock, end_time)
    /\ remaining' = Remaining(clock, end_time)
    /\ clock' = clock + 1
    /\ UNCHANGED <<file, run, file0, pc, argv, TTS_AVAILABLE, sessions, sound_mode,
                   tts_engine, task_name, end_time, completed, session, exc, played>>
    /\ UNCHANGED <<entered, history>>
    /\ UNCHANGED <<choice, answer, out, events, began, other>>

\* countdown lines 168-169 and the caller's next statement (lines 184-186, 207)
CountdownReturn ==
    /\ pc \in {"work_loop", "break_loop"}
    /\ ~Running(clock, end_time)
    /\ IF pc = "work_loop"
       THEN /\ completed' = CountdownResult
            /\ pc' = IF completed' THEN "play_complete" ELSE "exit"
       ELSE /\ pc' = "play_break_end"
            /\ UNCHANGED completed
    /\ UNCHANGED <<file, clock, run, file0, argv, TTS_AVAILABLE, sessions, sound_mode,
                   tts_engine, task_name, end_time, remaining, session, exc, played>>
    /\ UNCHANGED <<entered, history>>
    /\ events' = Append(events, ReturnEvent[pc])
    /\ UNCHANGED <<choice, answer, out, began, other>>

\* line 193: the first datetime.now(), formatted as the date
ReadDate ==
    /\ pc = "build"
    /\ session' = [ NoSession EXCEPT !.date = StrfDate(clock) ]
    /\ pc' = "build_time"
    /\ UNCHANGED <<file, clock, run, file0, argv, TTS_AVAILABLE, sessions, sound_mode,
                   tts_engine, task_name, end_time, remaining, completed, exc, played>>
    /\ UNCHANGED <<entered, history>>
    /\ UNCHANGED <<choice, answer, out, events, began, other>>

\* the wall clock moves on to the next second between the two reads
ClockAdvance ==
    /\ pc = "build_time"
    /\ StrfDate(clock) = session.date
    /\ StrfTime(clock) = StrfTime(end_time)
    /\ clock' = clock + 1
    /\ UNCHANGED <<file, run, file0, pc, argv, TTS_AVAILABLE, sessions, sound_mode,
                   tts_engine, task_name, end_time, remaining, completed, session, exc, played>>
    /\ UNCHANGED <<entered, history>>
    /\ UNCHANGED <<choice, answer, out, events, began, other>>

\* lines 194-198: the second datetime.now(), the rest of the dictionary, and
\* self.sessions.append(session); a loaded value that is no list has no append
BuildAndAppend ==
    /\ pc = "build_time"
    /\ session' = NewSession(task_name, session.date, StrfTime(clock))
    /\ IF sessions.kind = "list"
       THEN /\ sessions' = AppendSession(sessions, session')
            /\ pc' = "save_open"
            /\ UNCHANGED exc
       ELSE Raise("AttributeError") /\ UNCHANGED sessions
    /\ UNCHANGED <<file, clock, run, file0, argv, TTS_AVAILABLE, sound_mode,
                   tts_engine, task_name, end_time, remaining, completed, played>>
    /\ UNCHANGED <<entered, history>>
    /\ events' = IF sessions.kind = "list" THEN Append(events, "append") ELSE events
    /\ UNCHANGED <<choice, answer, out, began, other>>

\* save_sessions line 52: open(self.data_file, 'w') truncates the file, or fails
SaveOpen ==
    /\ pc = "save_open"
    /\ \E ok \in BOOLEAN :
         IF ok
         THEN file' = GarbageFile /\ opened' = opened + 1 /\ pc' = "save_dump" /\ UNCHANGED exc
         ELSE Raise("IOError") /\ UNCHANGED <<file, opened>>
    /\ UNCHANGED <<clock, run, file0, argv, TTS_AVAILABLE, sessions, sound_mode,
                   tts_engine, task_name, end_time, remaining, completed, session, played>>
    /\ UNCHANGED <<entered, saved, file1, invocations>>
    /\ UNCHANGED <<choice, answer, out, events, began, other>>

\* a save that writes the new session alone instead of the whole list
SavedTextLastOnly(log) ==
    JsonDump([ log EXCEPT !.items = SubSeq(@, Len(@), Len(@)) ])

\* what save_sessions writes into the opened file
SavedText(log) == JsonDump(log)

\* what the file holds after the text is written from offset 0 and the file
\* is closed: the text, when the file was still empty as open() left it; when
\* another process has written the file since, the text followed by whatever
\* of the other text reaches beyond it, which depends on the two lengths
Written(onDisk, text) ==
    IF onDisk = GarbageFile THEN { text } ELSE { text, GarbageFile }

\* save_sessions line 53 and the end of the with block: the whole list is
\* written, or the write fails and leaves the file cut short
SaveDump ==
    /\ pc = "save_dump"
    /\ \E ok \in BOOLEAN :
         IF ok
         THEN /\ file' \in Written(file, SavedText(sessions))
              /\ saved' = Append(saved, session)
              /\ events' = Append(events, "persist")
              /\ pc' = "break_prompt"
              /\ UNCHANGED exc
         ELSE Raise("IOError") /\ UNCHANGED <<file, saved, events>>
    /\ UNCHANGED <<clock, run, file0, argv, TTS_AVAILABLE, sessions, sound_mode,
                   tts_engine, task_name, end_time, remaining, completed, session, played>>
    /\ UNCHANGED <<entered, opened, file1, invocations>>
    /\ UNCHANGED <<choice, answer, out, began, other>>

\* lines 201-205: the acknowledgment and the break prompt
BreakPrompt ==
    /\ pc = "break_prompt"
    /\ \E typed \in BreakAnswers :
         /\ answer' = typed
         /\ pc' = IF TakesBreak(typed) THEN "break_enter" ELSE "exit"
    /\ UNCHANGED <<file, clock, run, file0, argv, TTS_AVAILABLE, sessions, sound_mode,
                   tts_engine, task_name, end_time, remaining, completed, session, exc, played>>
    /\ UNCHANGED <<entered, history>>
    /\ events' = Append(events, "prompt")
    /\ UNCHANGED <<choice, out, began, other>>

\* the host kills the process between two statements: its memory is gone;
\* `completed` is kept as the record of whether the work countdown had returned
Kill ==
    /\ pc \notin Terminal \cup {"off"}
    /\ pc' = "killed"
    /\ sessions' = EmptyList
    /\ sound_mode' = "None"
    /\ tts_engine' = "None"
    /\ task_name' = ""
    /\ end_time' = 0
    /\ remaining' = 0
    /\ session' = NoSession
    /\ played' = <<>>
    /\ UNCHANGED <<file, clock, run, file0, argv, TTS_AVAILABLE, completed, exc>>
    /\ UNCHANGED <<entered, history>>
    /\ choice' = "None"
    /\ answer' = "None"
    /\ UNCHANGED <<out, events, began, other>>

\* the user runs the program (again, a day later, on the same installation)
\* with one of the given argument vectors
LaunchWith(argvs) ==
    /\ pc \in Terminal \cup {"off"}
    /\ run < invocations
    /\ run' = run + 1
    /\ clock' = LaunchTime(run + 1)
    /\ file0' = file
    /\ \E a \in argvs : Fresh(a, TTS_AVAILABLE)
    /\ UNCHANGED file
    /\ UNCHANGED history
    /\ UNCHANGED other

Launch == LaunchWith(Argvs)

Next ==
    \/ Construct
    \/ Main
    \/ ChooseSoundMode
    \/ PlaySound
    \/ CountdownEnter
    \/ CountdownTick
    \/ CountdownReturn
    \/ ReadDate
    \/ ClockAdvance
    \/ BuildAndAppend
    \/ SaveOpen
    \/ SaveDump
    \/ BreakPrompt
    \/ Kill
    \/ Launch

Spec == Init /\ [][Next]_vars

-----------------------------------------------------------------------------
(* A second `start` process on the same backing file *)

\* how far the first process is with the backing file: not loaded yet, loaded,
\* between open() and the end of the write, written, or ended without writing
Stage ==
    IF pc \in {"off", "init"} THEN "unloaded"
    ELSE IF Has(events, "persist") THEN "written"
    ELSE IF pc = "save_dump" THEN "writing"
    ELSE IF pc \in Terminal THEN "ended"
    ELSE "loaded"

\* a save that adds the writer's newest record to what the file holds
RewrittenMerged(onDisk, log) ==
    IF Persisted(onDisk).kind = "list" /\ log.kind = "list" /\ Len(log.items) > 0
    THEN JsonDump(AppendSession(Persisted(onDisk), log.items[Len(log.items)]))
    ELSE SavedText(log)

\* save_sessions lines 52-53, from open() to the close: whatever the file
\* held, it now holds the writer's list
Rewritten(onDisk, log) == SavedText(log)

\* lines 327, 32-38: the second process is launched and loads the file, at a
\* moment when the first one is not counting down
OtherConstruct ==
    /\ other_pc = "off"
    /\ pc \notin {"work_loop", "break_loop"}
    /\ other_sessions' = load_sessions(file).value
    /\ other_start' = clock
    /\ other_loaded' = Stage
    /\ other_pc' = "loaded"
    /\ UNCHANGED other_saved
    /\ UNCHANGED <<file, clock, run, file0, pc, argv, TTS_AVAILABLE, sessions, sound_mode,
                   tts_engine, task_name, end_time, remaining, completed, session, exc, played>>
    /\ UNCHANGED <<entered, history>>
    /\ UNCHANGED <<choice, answer, out, events, began>>

\* lines 171-198 in the second process: at the instant its work countdown
\* ends (while the first process counts, time passes at its ticks) it appends
\* its record
OtherSession ==
    /\ other_pc = "loaded"
    /\ other_sessions.kind = "list"
    /\ clock <= other_start + work_duration
    /\ pc \in {"work_loop", "break_loop"} => clock = other_start + work_duration
    /\ clock' = other_start + work_duration
    /\ other_sessions' =
          AppendSession(other_sessions, NewSession("other", StrfDate(clock'), StrfTime(clock')))
    /\ other_pc' = "appended"
    /\ UNCHANGED <<other_start, other_loaded, other_saved>>
    /\ UNCHANGED <<file, run, file0, pc, argv, TTS_AVAILABLE, sessions, sound_mode,
                   tts_engine, task_name, end_time, remaining, completed, session, exc, played>>
    /\ UNCHANGED <<entered, history>>
    /\ UNCHANGED <<choice, answer, out, events, began>>

\* line 199 in the second process: save_sessions
OtherSave ==
    /\ other_pc = "appended"
    /\ file' = Rewritten(file, other_sessions)
    /\ other_saved' = Stage
    /\ other_pc' = "saved"
    /\ UNCHANGED <<other_sessions, other_start, other_loaded>>
    /\ UNCHANGED <<clock, run, file0, pc, argv, TTS_AVAILABLE, sessions, sound_mode,
                   tts_engine, task_name, end_time, remaining, completed, session, exc, played>>
    /\ UNCHANGED <<entered, history>>
    /\ UNCHANGED <<choice, answer, out, events, began>>

\* two invocations of `start` on a well-formed backing file
InitOverlap == InitWith({ WellFormedFile }, {FALSE}, 1)

NextOverlap ==
    \/ Next
    \/ OtherConstruct
    \/ OtherSession
    \/ OtherSave

SpecOverlap == InitOverlap /\ [][NextOverlap]_vars

\* One installation and an empty start, with the scheduling of the countdown:
\* time.sleep(1) returns and the loop condition is evaluated again, so a
\* countdown that can tick or return eventually does.
InitLive == InitWith({ MissingFile }, {FALSE}, MaxRuns)

SpecLive ==
    /\ InitLive
    /\ [][Next]_vars
    /\ WF_vars(CountdownTick)
    /\ WF_vars(CountdownReturn)

\* The views alone, over every log of ViewFiles: one invocation of a view
\* command, or a call of show_history with a limit of the caller's choice.
InitViews == InitWith(ViewFiles, {FALSE}, 1)

LaunchView == LaunchWith(ViewArgvs)

\* timer.show_history(limit=n) on the constructed timer (lines 233-251)
ShowHistory ==
    /\ pc = "main"
    /\ \E n \in 1..MaxLimit :
         /\ out' = show_history(sessions, n)
         /\ pc' = "exit"
    /\ UNCHANGED <<file, clock, run, file0, argv, TTS_AVAILABLE, sessions, sound_mode,
                   tts_engine, task_name, end_time, remaining, completed, session, exc, played>>
    /\ UNCHANGED <<entered, history>>
    /\ UNCHANGED <<choice, answer, events, began, other>>

NextViews ==
    \/ LaunchView
    \/ Construct
    \/ Main
    \/ ShowHistory

SpecViews == InitViews /\ [][NextViews]_vars

SpecRuns == InitRuns /\ [][Next]_vars

-----------------------------------------------------------------------------
(* Vocabulary of the claims *)

\* the statements of start_session and of what it calls
StartPcs ==
    { "choose", "play_start", "work_enter", "work_loop", "play_complete", "build",
      "build_time", "save_open", "save_dump", "break_prompt", "break_enter",
      "break_loop", "play_break_end" }

\* the process is past save_sessions (line 199) and still has its memory
PastSave ==
    \/ pc \in { "break_prompt", "break_enter", "break_loop", "play_break_end" }
    \/ pc = "exit" /\ completed
    \/ pc = "raised" /\ exc = "RuntimeError" /\ Len(played) >= 2

\* the log the process loaded at startup
Loaded == load_sessions(file0).value

\* the persisted log holds one record more than when the process was launched
RecordAdded ==
    /\ file.kind = "list"
    /\ file0.kind # "object"
    /\ Len(Persisted(file).items) = Len(Persisted(file0).items) + 1

IsPrefix(a, b) == Len(a) <= Len(b) /\ SubSeq(b, 1, Len(a)) = a

\* the task label the argument vector gives (line 341)
TaskOf(a) == Join(Slice(a, 3))

-----------------------------------------------------------------------------
(* C1 *)

\* C1 as stated, for the runs that return or are killed by the host: when the
\* run has ended, its record is in the log if and only if its work countdown
\* ran to the end.
C1_RecordIffElapsed ==
    pc \in {"exit", "killed"} => (RecordAdded <=> completed)

\* C1 (amended): a record is added only if the work countdown ran for the full
\* configured duration, and every run that goes on to the break prompt has its
\* record; a run ended between the end of the countdown and the end of
\* save_sessions (killed, or by an exception) has elapsed and has no record.
C1_RecordOnlyIfElapsed ==
    /\ RecordAdded => ( /\ completed
                        /\ entered >= 0
                        /\ clock >= entered + work_duration )
    /\ completed => clock >= entered + work_duration
    /\ PastSave => RecordAdded

C1_Witness ==
    pc = "break_prompt" /\ RecordAdded /\ completed /\ Len(Persisted(file).items) = 3

-----------------------------------------------------------------------------
(* C2 *)

\* C2: a `start` run with task T whose work countdown elapsed and which has
\* ended (returned or raised) has appended exactly one record, at the end of
\* the log it loaded, with task T, completed true and duration 25 minutes.
C2_ElapsedRunAppendsOne ==
    (pc \in {"exit", "raised"} /\ completed) =>
        /\ sessions.kind = "list"
        /\ Len(sessions.items) = Len(Loaded.items) + 1
        /\ SubSeq(sessions.items, 1, Len(Loaded.items)) = Loaded.items
        /\ LET r == sessions.items[Len(sessions.items)]
           IN  /\ r.task = TaskOf(argv)
               /\ r.completed = TRUE
               /\ r.duration = WorkMinutes
               /\ r.duration > 0

-----------------------------------------------------------------------------
(* C3 *)

\* C3: starting from a missing or well-formed backing file, as long as every
\* rewrite of the file that was begun has completed, what a fresh process
\* loads is the records the file held at first followed by exactly the
\* sessions saved since, field for field, in the order of their completion.
C3_FreshLoadRoundTrip ==
    (file1.kind \in {"missing", "list"} /\ opened = Len(saved)) =>
        /\ Persisted(file).kind = "list"
        /\ Persisted(file).items = Persisted(file1).items \o saved
        /\ pc = "main" => sessions = Persisted(file)

C3_Witness ==
    /\ Len(saved) = 2 /\ opened = 2 /\ pc = "exit"
    /\ file1.kind = "list"
    /\ saved[1].date # saved[2].date
    /\ Len(Persisted(file).items) = 4

-----------------------------------------------------------------------------
(* C4 *)

\* C4: load_sessions never raises, so the constructor always succeeds, and it
\* returns the empty list for a missing and for an unparsable backing file.
C4_LoadNeverRaises ==
    /\ ~(pc = "raised" /\ exc = "LoadError")
    /\ (pc = "main" /\ ~Parsable(file0)) => sessions = EmptyList

C4_Witness ==
    pc = "main" /\ file0.kind = "garbage" /\ sessions = EmptyList

-----------------------------------------------------------------------------
(* C5 *)

\* C5: after a failed write of the backing store the in-memory log is the log
\* as it was before the append (the unpersisted record is not retained).
C5_FailedWriteNotRetained ==
    (pc = "raised" /\ exc = "IOError") => sessions = Loaded

-----------------------------------------------------------------------------
(* C6 *)

\* C6: a notifier that raises never fails the session: no process is ended by
\* the error of a notification.
C6_NotifierNeverFailsSession ==
    ~(pc = "raised" /\ exc = "RuntimeError")

-----------------------------------------------------------------------------
(* C7 *)

-----------------------------------------------------------------------------
(* C8 *)

\* C8: the date and the time of a record built by start_session are those of
\* one instant of the record's construction.
C8_SingleInstant ==
    pc = "save_open" =>
        \E t \in end_time..clock :
            session.date = StrfDate(t) /\ session.time = StrfTime(t)

-----------------------------------------------------------------------------
(* C9 *)

\* C9: whenever main enters the session engine, the task label it passes (and
\* start_session stores in the record) is not empty.
C9_TaskNonEmpty ==
    pc \in StartPcs => task_name # ""

-----------------------------------------------------------------------------
(* C10 *)

\* the persisted log after the invocation is the one before it, or that one
\* followed by one record
GrownByAtMostOne ==
    \/ Persisted(file) = Persisted(file0)
    \/ /\ RecordAdded
       /\ IsPrefix(Persisted(file0).items, Persisted(file).items)

\* C10 as stated: given a parsable backing file at startup, after the
\* invocation of any command the persisted sequence extends the one before it
\* by at most one record.
C10_AppendOnly ==
    (pc \in Terminal /\ Parsable(file0)) =>
        /\ IsPrefix(Persisted(file0).items, Persisted(file).items)
        /\ Len(Persisted(file).items) <= Len(Persisted(file0).items) + 1

\* C10 (amended): given a parsable backing file at startup, after the
\* invocation the persisted sequence is the one before it, or that one followed
\* by exactly one record, or, when save_sessions opened the file and the write
\* did not complete (it failed, or the process was killed), the file is left
\* unparsable and the persisted sequence is empty.
C10_AppendOnlyOrCutShort ==
    (pc \in Terminal /\ Parsable(file0)) =>
        \/ GrownByAtMostOne
        \/ file = GarbageFile /\ pc \in {"raised", "killed"} /\ opened > Len(saved)

C10_Witness ==
    /\ pc = "exit" /\ RecordAdded
    /\ Len(Persisted(file0).items) = 2
    /\ IsPrefix(Persisted(file0).items, Persisted(file).items)

-----------------------------------------------------------------------------
(* C11 *)

\* the invocation is a command other than `start` with a task argument
ReadOnlyRun ==
    /\ pc # "off"
    /\ \/ Len(argv) < 3
       \/ Lower(argv[2]) # "start"

\* C11: today, history, stats, help, no argument, an unknown command and
\* `start` without a task leave the backing file as the process found it and
\* the in-memory list as it was loaded; they go through none of the lifecycle
\* (no append, no write).
C11_ReadOnlyCommands ==
    ReadOnlyRun =>
        /\ file = file0
        /\ events = <<>>
        /\ pc \in {"main", "exit", "raised"} => sessions = Loaded

C11_Witness ==
    /\ pc = "exit" /\ argv = <<Script, "stats">>
    /\ out.view = "stats" /\ ~out.empty
    /\ Len(sessions.items) = 2 /\ sessions = Loaded
    /\ file = file0

-----------------------------------------------------------------------------
(* C12 *)

Affirmative == { "y", "Y" }

\* C12: after the break prompt was answered, the break countdown is entered
\* if and only if the answer was "y" or "Y"; any other answer ends the run
\* with no break countdown and no break_end notification; and the log, in
\* memory and on disk, keeps the size it had after the append.
C12_BreakIffYes ==
    answer # "None" =>
        /\ answer \notin Affirmative =>
              /\ pc = "exit"
              /\ ~Has(events, "break") /\ ~Has(events, "break_end")
              /\ ~Has(played, "break_end")
        /\ answer \in Affirmative =>
              \/ pc = "break_enter"
              \/ Has(events, "break")
        /\ Len(sessions.items) = Len(Loaded.items) + 1
        /\ Len(Persisted(file).items) = Len(Loaded.items) + 1

C12_Witness ==
    /\ pc = "exit" /\ answer = "Y"
    /\ Has(events, "break_done") /\ Has(played, "break_end")
    /\ clock >= entered + work_duration + break_duration
    /\ Len(Persisted(file).items) = Len(Loaded.items) + 1

-----------------------------------------------------------------------------
(* C13 *)

\* the lifecycle of a `start` run: notify(start), the work countdown from its
\* entry to its return, notify(complete), the append, the write, the
\* acknowledgment and break prompt, the break countdown, notify(break_end)
Lifecycle ==
    << "start", "work", "work_done", "complete", "append", "persist", "prompt",
       "break", "break_done", "break_end" >>

\* C13: the events of every run are an initial part of the lifecycle: each at
\* most once, in that order, none skipped; so no complete notification or
\* append precedes the end of the work countdown and no break_end precedes
\* the append or the end of the break countdown.
C13_LifecycleOrder ==
    /\ IsPrefix(events, Lifecycle)
    /\ Has(events, "work_done") => clock >= entered + work_duration
    /\ Has(events, "break_done") => clock >= began + break_duration

C13_Witness ==
    pc = "exit" /\ events = Lifecycle /\ played = <<"start", "complete", "break_end">>

-----------------------------------------------------------------------------
(* C14 *)

\* C14: whatever load_sessions returned from a parsable backing file, the
\* views complete without raising.
C14_ViewsNeverRaise ==
    ~(pc = "raised" /\ exc = "TypeError" /\ Parsable(file0))

-----------------------------------------------------------------------------
(* C15 *)

Min(a, b) == IF a <= b THEN a ELSE b

\* C15: for a log of n records and a limit > 0 the history view lists exactly
\* min(n, limit) records, and its i-th row is the record at log position
\* n - i + 1.
C15_HistoryLastReversed ==
    out.view = "history" =>
        LET items == sessions.items
            n == Len(items)
        IN  IF out.empty THEN n = 0
            ELSE /\ out.limit > 0
                 /\ Len(out.rows) = Min(n, out.limit)
                 /\ \A i \in 1..Len(out.rows) : out.rows[i] = items[n - i + 1]

C15_Witness ==
    /\ out.view = "history" /\ ~out.empty
    /\ Len(sessions.items) = 15 /\ out.limit = 10
    /\ Len(out.rows) = 10
    /\ out.rows[1] = sessions.items[15] /\ out.rows[10] = sessions.items[6]
    /\ out.rows[1] # out.rows[10]

-----------------------------------------------------------------------------
(* C16 *)

RECURSIVE MinutesUpTo(_, _)
\* the durations of the first k records, added up
MinutesUpTo(items, k) ==
    IF k = 0 THEN 0 ELSE MinutesUpTo(items, k - 1) + items[k].duration

RECURSIVE CountsUpTo(_, _)
\* the first k per-day counts, added up
CountsUpTo(days, k) ==
    IF k = 0 THEN 0 ELSE CountsUpTo(days, k - 1) + days[k].count

\* C16: for a non-empty log, total is the number of records, total minutes
\* the sum of their durations, the per-day counts add up to total, active
\* days is the number of distinct dates, and the most productive day has the
\* greatest per-day count and, among the days with that count, is the one
\* whose first record comes earliest in the log.
C16_StatsAggregate ==
    out.view = "stats" =>
        LET items == sessions.items
            n == Len(items)
            dates == { items[i].date : i \in 1..n }
            CountOn(d) == Cardinality({ i \in 1..n : items[i].date = d })
            FirstOn(d) == CHOOSE i \in 1..n :
                              items[i].date = d /\ \A j \in 1..(i - 1) : items[j].date # d
        IN  IF out.empty THEN n = 0
            ELSE /\ n > 0
                 /\ out.total = n
                 /\ out.minutes = MinutesUpTo(items, n)
                 /\ CountsUpTo(out.days, Len(out.days)) = out.total
                 /\ out.active = Cardinality(dates)
                 /\ out.best.date \in dates
                 /\ out.best.count = CountOn(out.best.date)
                 /\ \A d \in dates :
                      /\ CountOn(d) <= out.best.count
                      /\ CountOn(d) = out.best.count => FirstOn(out.best.date) <= FirstOn(d)

C16_Witness ==
    /\ out.view = "stats" /\ ~out.empty
    /\ out.total = 4 /\ out.active = 2
    /\ out.minutes = 5 * WorkMinutes
    /\ out.best = [ date |-> 1, count |-> 2 ]
    /\ sessions.items[1].date = 1 /\ sessions.items[2].date = 0

-----------------------------------------------------------------------------
(* C17 *)

\* both processes have completed their sessions and their writes
BothSaved == other_pc = "saved" /\ Has(events, "persist")

\* both processes loaded the backing file before either began to write it
Overlapped ==
    /\ other_loaded \in {"unloaded", "loaded"}
    /\ other_saved \in {"loaded", "writing", "written"}

\* the record of the first process and that of the second
FirstRecord == saved[Len(saved)]
OtherRecord == other_sessions.items[Len(other_sessions.items)]

\* C17: once both processes have saved: if both had loaded the file before
\* either wrote it, the persisted log is the initial records followed by the
\* record of the later writer alone (when the second process wrote between
\* the open() and the write of the first, whose write then lands last, the
\* file may instead be left unparsable); if one had written before the other
\* loaded, the persisted log is the initial records followed by both records
\* in the order of the writes.
C17_LostUpdate ==
    BothSaved =>
        LET initial == Persisted(file1).items
            after == Persisted(file).items
        IN  /\ (Overlapped /\ other_saved = "written") =>
                  after = initial \o <<OtherRecord>>
            /\ (Overlapped /\ other_saved = "loaded") =>
                  after = initial \o <<FirstRecord>>
            /\ (Overlapped /\ other_saved = "writing") =>
                  \/ after = initial \o <<FirstRecord>>
                  \/ file = GarbageFile
            /\ other_loaded = "written" =>
                  after = initial \o <<FirstRecord, OtherRecord>>
            /\ other_saved = "unloaded" =>
                  after = initial \o <<OtherRecord, FirstRecord>>

C17_Witness ==
    /\ BothSaved /\ Overlapped /\ other_saved = "written"
    /\ pc = "exit"
    /\ Len(Persisted(file1).items) = 2
    /\ Persisted(file).items = Persisted(file1).items \o <<OtherRecord>>
    /\ ~Has(Persisted(file).items, FirstRecord)
    /\ FirstRecord.task = "a b"

-----------------------------------------------------------------------------
(* C18 *)

Counting == pc \in {"work_loop", "break_loop"}

\* the duration given to the countdown in progress
Given == [ work_loop |-> work_duration, break_loop |-> break_duration ]

\* C18: countdown has no way out but its return: while the clock advances, a
\* countdown in progress eventually returns (unless the host kills the
\* process), the work countdown returning True; it has returned only when at
\* least its duration has passed since it was entered; every value it shows
\* on a tick lies in 0..duration, and from tick to tick the value does not
\* increase.
C18_CountdownCompletes ==
    /\ [](Has(events, "work_done") => (completed /\ clock >= entered + work_duration))
    /\ [](Has(events, "break_done") => clock >= began + break_duration)
    /\ []((Counting /\ clock > began) => remaining \in 0..Given[pc])
    /\ [][(Counting /\ pc' = pc /\ clock' # clock /\ clock > began) =>
              remaining' <= remaining]_vars
    /\ (pc = "work_loop") ~> (pc \in {"play_complete", "killed"})
    /\ (pc = "break_loop") ~> (pc \in {"play_break_end", "killed"})

C18_Witness ==
    /\ pc = "play_break_end" /\ Has(events, "break_done")
    /\ clock = began + break_duration
    /\ remaining = 1
    /\ completed

-----------------------------------------------------------------------------
(* C19 *)

Modes == { "beeps", "tts", "none" }

\* C19: the sound prompt is open only while sound_mode is unset, and is still
\* open after an answer only when the answer was invalid (voice without the
\* backend included); once set, the mode is not changed for the rest of the
\* process; no start notification and no countdown happens with the mode
\* unset; and the mode is tts only with the voice backend available.
C19_ModeResolvedOnce ==
    /\ [](pc = "choose" => sound_mode = "None")
    /\ []((pc = "choose" /\ choice # "None") =>
              (choice \notin {"1", "3"} /\ (choice = "2" => ~TTS_AVAILABLE)))
    /\ []((pc \notin {"killed", "off"} /\ events # <<>>) => sound_mode \in Modes)
    /\ [](pc \in {"play_start", "work_enter", "work_loop"} =>
              (sound_mode \in Modes /\ choice \in {"1", "2", "3"}))
    /\ [](sound_mode = "tts" => (TTS_AVAILABLE /\ choice = "2"))
    /\ [][(sound_mode \in Modes /\ pc' \notin {"killed", "init"}) =>
              sound_mode' = sound_mode]_vars

C19_Witness ==
    /\ pc = "choose" /\ choice = "2" /\ ~TTS_AVAILABLE
    /\ sound_mode = "None" /\ events = <<>>

-----------------------------------------------------------------------------
(* C20 *)

\* C20: once save_sessions has returned, in every later state of the run (the
\* break prompt, the break countdown, the end, and also after a kill), the
\* backing file holds the log the process loaded followed by the new record,
\* and, while the process lives, exactly its in-memory log.
C20_PersistedBeforePrompt ==
    Has(events, "persist") =>
        /\ file.kind = "list"
        /\ Persisted(file).items = Loaded.items \o <<saved[Len(saved)]>>
        /\ pc # "killed" =>
              /\ sessions = Persisted(file)
              /\ sessions.items[Len(sessions.items)] = session

C20_Witness ==
    /\ pc = "killed" /\ Has(events, "break") /\ ~Has(events, "break_done")
    /\ clock > began
    /\ Len(Persisted(file).items) = 3
    /\ Persisted(file).items[3].task = "a b"

====
